---- MODULE Spec2Model ----
\* Task-management REST backend: JWT authentication middleware, role guard,
\* task routers and the handlers behind them, over a relational store of
\* users and tasks.  One action is one HTTP request handled to completion;
\* updateTask is also given in two steps, split at the await between its
\* read and its write, for the interleavings of concurrent requests.
EXTENDS Integers, Sequences, FiniteSets, TLC

\* ---------------------------------------------------------------- bounds
MaxUsers == 1
MaxTasks == 1
MaxTime == 3600
MaxInflight == 2

\* ------------------------------------------------------------- constants
\* jwt.sign(..., { expiresIn: '1h' }), in seconds
ExpiresIn == 3600

Secret == "ACCESS_TOKEN_SECRET"
Roles == {"USER", "ADMIN"}
Emails == {"a@x.com", "b@x.com"}
Passwords == {"p"}
Names == {"A"}

\* the instants the clock visits: issuance times and the expiry boundary
TimePoints == {0} \cup ((ExpiresIn - 1)..MaxTime)

\* the task router modules of the repository
TaskModules == {"tasks.js", "part_004", "part_006"}

VARIABLES
  users,       \* prisma.user rows
  nextUserId,  \* User.id autoincrement
  tasks,       \* prisma.task rows
  nextTaskId,  \* Task.id autoincrement
  now,         \* wall clock, seconds
  wallet,      \* the token the client holds: the last one the server issued
  deployed,    \* the task router module mounted at /api/tasks
  inflight,    \* the updateTask requests between their findUnique and their update
  last         \* the last request and what the server did with it

vars == <<users, nextUserId, tasks, nextTaskId, now, wallet, deployed, inflight, last>>

\* ---------------------------------------------------------------- values
NoUser == [id |-> 0]
NoTask == [id |-> 0]

\* a word of the Authorization header in second position
Undefined == [kind |-> "undefined", sig |-> "", userId |-> 0, role |-> "",
              iat |-> 0, exp |-> 0]
EmptyWord == [kind |-> "empty", sig |-> "", userId |-> 0, role |-> "",
              iat |-> 0, exp |-> 0]
Garbage == [kind |-> "garbage", sig |-> "", userId |-> 0, role |-> "",
              iat |-> 0, exp |-> 0]

\* jwt.sign with expiresIn: '2h'
jwtSignTwoHours(userId, role, secret, t) ==
  [kind |-> "jwt", sig |-> secret, userId |-> userId, role |-> role,
   iat |-> t, exp |-> t + 2 * ExpiresIn]

\* jwt.sign({ userId, role }, secret, { expiresIn: '1h' }) at time t: the
\* payload carries iat = t and exp = iat + 1h
jwtSign(userId, role, secret, t) ==
  [kind |-> "jwt", sig |-> secret, userId |-> userId, role |-> role,
   iat |-> t, exp |-> t + ExpiresIn]

\* jwt.verify that still accepts a token at the very instant it expires
jwtVerifyLateExpiry(token, secret, t) ==
  /\ token.kind = "jwt"
  /\ token.sig = secret
  /\ t <= token.exp

\* jwt.verify(token, secret) at time t: TRUE iff it returns the claims,
\* FALSE iff it throws (malformed, signature mismatch, or t >= exp)
jwtVerify(token, secret, t) ==
  /\ token.kind = "jwt"
  /\ token.sig = secret
  /\ t < token.exp

\* bcrypt.hash(password, 10)
bcryptHash(password) == <<"bcrypt", password>>

\* a compare that takes every password for the right one
bcryptCompareAlways(password, hash) == TRUE

\* bcrypt.compare(password, hash)
bcryptCompare(password, hash) == hash = bcryptHash(password)

\* prisma.user.findUnique({ where: { id } })
findUserById(id) ==
  IF \E u \in users : u.id = id THEN CHOOSE u \in users : u.id = id ELSE NoUser

\* prisma.user.findUnique({ where: { email } })
findUserByEmail(email) ==
  IF \E u \in users : u.email = email THEN CHOOSE u \in users : u.email = email ELSE NoUser

\* a lookup that returns some row whenever the table has one, whatever the id
findTaskAnyRow(id) ==
  IF tasks # {} THEN CHOOSE t \in tasks : TRUE ELSE NoTask

\* prisma.task.findUnique({ where: { id } })
findTask(id) ==
  IF \E t \in tasks : t.id = id THEN CHOOSE t \in tasks : t.id = id ELSE NoTask

\* ------------------------------------------------------- request headers
NoHeader == [present |-> FALSE, first |-> "", second |-> Undefined]
Header(scheme, word) == [present |-> TRUE, first |-> scheme, second |-> word]

\* authHeader && authHeader.split(' ')[1]
splitToken(authHeader) == IF authHeader.present THEN authHeader.second ELSE Undefined

\* !token
Falsy(token) == token.kind \in {"undefined", "empty"}

\* ------------------------------------------------------------ middleware
\* what a middleware did: status 0 means it sent no response
\* and mw names the module whose authToken ran ("" when none did)
Outcome(mw, status, verified, lookup, user, next) ==
  [mw |-> mw, status |-> status, verified |-> verified, lookup |-> lookup,
   user |-> user, next |-> next]

\* no middleware in front of the handler: req.user stays undefined
noMiddleware == Outcome("", 0, FALSE, FALSE, NoUser, TRUE)

\* authToken without the early return on a missing token: jwt.verify is
\* called on it, throws, and the catch block answers 403
authTokenNoTokenCheck(authHeader) ==
  LET token == splitToken(authHeader) IN
  IF ~jwtVerify(token, Secret, now) THEN Outcome("auth.js", 403, TRUE, FALSE, NoUser, FALSE)
  ELSE LET user == findUserById(token.userId) IN
       IF user = NoUser THEN Outcome("auth.js", 403, TRUE, TRUE, NoUser, FALSE)
       ELSE Outcome("auth.js", 0, TRUE, TRUE,
                    [id |-> user.id, name |-> user.name, email |-> user.email,
                     role |-> token.role], TRUE)

\* auth.js authToken: the principal is { id, name, email, role: decoded.role }
authToken(authHeader) ==
  LET token == splitToken(authHeader) IN
  IF Falsy(token) THEN Outcome("auth.js", 401, FALSE, FALSE, NoUser, FALSE)
  ELSE IF ~jwtVerify(token, Secret, now) THEN Outcome("auth.js", 403, TRUE, FALSE, NoUser, FALSE)
  ELSE LET user == findUserById(token.userId) IN
       IF user = NoUser THEN Outcome("auth.js", 403, TRUE, TRUE, NoUser, FALSE)
       ELSE Outcome("auth.js", 0, TRUE, TRUE,
                    [id |-> user.id, name |-> user.name, email |-> user.email,
                     role |-> token.role], TRUE)

\* profile.js authToken without the check of the looked-up user: a null
\* user is attached and next is called
profileAuthTokenNoUserCheck(authHeader) ==
  LET token == splitToken(authHeader) IN
  IF Falsy(token) THEN Outcome("profile.js", 401, FALSE, FALSE, NoUser, FALSE)
  ELSE IF ~jwtVerify(token, Secret, now) THEN Outcome("profile.js", 403, TRUE, FALSE, NoUser, FALSE)
  ELSE Outcome("profile.js", 0, TRUE, TRUE, findUserById(token.userId), TRUE)

\* profile.js authToken: req.user = user, the stored row
profileAuthToken(authHeader) ==
  LET token == splitToken(authHeader) IN
  IF Falsy(token) THEN Outcome("profile.js", 401, FALSE, FALSE, NoUser, FALSE)
  ELSE IF ~jwtVerify(token, Secret, now) THEN Outcome("profile.js", 403, TRUE, FALSE, NoUser, FALSE)
  ELSE LET user == findUserById(token.userId) IN
       IF user = NoUser THEN Outcome("profile.js", 403, TRUE, TRUE, NoUser, FALSE)
       ELSE Outcome("profile.js", 0, TRUE, TRUE, user, TRUE)

\* user router authToken: req.user = { ...user, role: decoded.role }
userAuthToken(authHeader) ==
  LET token == splitToken(authHeader) IN
  IF Falsy(token) THEN Outcome("part_002", 401, FALSE, FALSE, NoUser, FALSE)
  ELSE IF ~jwtVerify(token, Secret, now) THEN Outcome("part_002", 403, TRUE, FALSE, NoUser, FALSE)
  ELSE LET user == findUserById(token.userId) IN
       IF user = NoUser THEN Outcome("part_002", 403, TRUE, TRUE, NoUser, FALSE)
       ELSE Outcome("part_002", 0, TRUE, TRUE, [user EXCEPT !.role = token.role], TRUE)

\* checkAdmin that lets every principal through, whatever its role
checkAdminAnyRole(user) ==
  IF user = NoUser THEN "threw" ELSE "passed"

\* checkAdmin: "rejected" sends 403, "threw" is the TypeError of reading
\* .role of an undefined req.user, "passed" calls next
checkAdmin(user) ==
  IF user = NoUser THEN "threw"
  ELSE IF user.role # "ADMIN" THEN "rejected"
  ELSE "passed"

\* isAdmin: req.user && req.user.role === 'ADMIN'
isAdmin(user) ==
  IF user # NoUser /\ user.role = "ADMIN" THEN "passed" ELSE "rejected"

\* --------------------------------------------------------- request trace
\* the error member of the JSON body a handler sends with a status; "" when
\* the body has none (res.sendStatus, or a success)
errorBody(op, status) ==
  CASE op = "register" /\ status = 400 -> "Missing required fields"
    [] op = "register" /\ status = 500 -> "Registration Failed"
    [] op = "login" /\ status = 401 -> "Invalid email or password"
    [] op = "login" /\ status = 500 -> "Login Failed"
    [] op = "getAllTasks" /\ status = 500 -> "Failed to fetch tasks"
    [] op = "getTaskById" /\ status = 400 -> "Invalid task ID"
    [] op = "getTaskById" /\ status = 404 -> "Task not found"
    [] op = "createTask" /\ status = 400 -> "Title and User ID are required"
    [] op = "createTask" /\ status = 500 -> "Failed to create task"
    [] op = "updateTask" /\ status = 404 -> "Task not found"
    [] op = "updateTask" /\ status = 500 -> "Failed to update task"
    [] op = "markTaskAsCompleted" /\ status = 404 -> "Task not found"
    [] op = "markTaskAsCompleted" /\ status = 500 -> "Failed to mark task as completed"
    [] op = "deleteTask" /\ status = 500 -> "Failed to delete task"
    [] op = "deleteTask" /\ status = 404 -> "Task not found"
    [] op = "deleteTask" /\ status = 403 -> "Unauthorized"
    [] OTHER -> ""

\* a request without a body
NoBody == [f \in {} |-> ""]

Trace(op, module, hdr, out, guard, handler, status, ops) ==
  [op |-> op, module |-> module, hdr |-> hdr,
   mw |-> out.mw, verified |-> out.verified, lookup |-> out.lookup, user |-> out.user,
   authNext |-> out.next, guard |-> guard, handler |-> handler,
   status |-> status, ops |-> ops,
   id |-> 0, param |-> "", sortBy |-> "", sort |-> "", token |-> Undefined,
   query |-> [sortBy |-> "", status |-> "", search |-> ""],
   skip |-> 0, take |-> 0, skipNaN |-> FALSE, takeNaN |-> FALSE, clauses |-> {},
   tasks |-> {}, totalTasks |-> 0, totalPages |-> 0,
   body |-> NoBody, error |-> errorBody(op, status), role |-> "", json |-> NoBody]

NoTrace == Trace("none", "", NoHeader, Outcome("", 0, FALSE, FALSE, NoUser, FALSE),
                 "none", FALSE, 0, {})

\* the headers the client can send: nothing, a scheme alone, a scheme and an
\* empty word, garbage, the token it holds under the Bearer or another
\* scheme, or that token re-signed with another secret
Headers ==
  {NoHeader, Header("Bearer", Undefined), Header("Bearer", EmptyWord),
   Header("Bearer", Garbage)}
  \cup {Header(s, t) : s \in {"Bearer", "Basic"}, t \in wallet}
  \cup {Header("Bearer", [t EXCEPT !.sig = "other"]) : t \in wallet}

\* request bodies are records over the fields they carry
Has(body, f) == f \in DOMAIN body
Str(body, f) == IF Has(body, f) THEN body[f] ELSE ""
Num(body, f) == IF Has(body, f) THEN body[f] ELSE 0
Only(body, fs) == [f \in (DOMAIN body) \cap fs |-> body[f]]

\* -------------------------------------------------------- auth handlers
\* register that hashes the password before it looks at the fields
registerHashFirst(email, password, name, role) ==
  /\ nextUserId <= MaxUsers
  /\ LET body == [email |-> email, password |-> password, name |-> name, role |-> role]
         missing == email = "" \/ password = "" \/ name = ""
         duplicate == \E u \in users : u.email = email
         user == [id |-> nextUserId, email |-> email, password |-> bcryptHash(password),
                  name |-> name, role |-> IF role = "" THEN "USER" ELSE role]
         token == jwtSign(user.id, user.role, Secret, now)
     IN
     IF missing THEN
       /\ last' = [Trace("register", "auth.js", NoHeader, noMiddleware, "none", TRUE, 400,
                         {"bcrypt.hash"})
                     EXCEPT !.body = body]
       /\ UNCHANGED <<users, nextUserId, wallet>>
     ELSE IF duplicate THEN
       /\ last' = [Trace("register", "auth.js", NoHeader, noMiddleware, "none", TRUE, 500,
                         {"bcrypt.hash", "user.create"})
                     EXCEPT !.body = body]
       /\ nextUserId' = nextUserId + 1
       /\ UNCHANGED <<users, wallet>>
     ELSE
       /\ users' = users \cup {user}
       /\ nextUserId' = nextUserId + 1
       /\ wallet' = {token}
       /\ last' = [Trace("register", "auth.js", NoHeader, noMiddleware, "none", TRUE,
                         201, {"bcrypt.hash", "user.create"})
                     EXCEPT !.body = body, !.token = token]
  /\ UNCHANGED <<tasks, nextTaskId, now, deployed, inflight>>

\* POST /api/auth/register; "" stands for a field the body does not carry
register(email, password, name, role) ==
  /\ nextUserId <= MaxUsers
  /\ LET body == [email |-> email, password |-> password, name |-> name, role |-> role]
         missing == email = "" \/ password = "" \/ name = ""
         duplicate == \E u \in users : u.email = email
         user == [id |-> nextUserId, email |-> email, password |-> bcryptHash(password),
                  name |-> name, role |-> IF role = "" THEN "USER" ELSE role]
         token == jwtSign(user.id, user.role, Secret, now)
     IN
     IF missing THEN
       /\ last' = [Trace("register", "auth.js", NoHeader, noMiddleware, "none", TRUE, 400, {})
                     EXCEPT !.body = body]
       /\ UNCHANGED <<users, nextUserId, wallet>>
     ELSE IF duplicate THEN
       /\ last' = [Trace("register", "auth.js", NoHeader, noMiddleware, "none", TRUE, 500,
                         {"bcrypt.hash", "user.create"})
                     EXCEPT !.body = body]
       /\ nextUserId' = nextUserId + 1
       /\ UNCHANGED <<users, wallet>>
     ELSE
       /\ users' = users \cup {user}
       /\ nextUserId' = nextUserId + 1
       /\ wallet' = {token}
       /\ last' = [Trace("register", "auth.js", NoHeader, noMiddleware, "none", TRUE,
                         201, {"bcrypt.hash", "user.create"})
                     EXCEPT !.body = body, !.token = token]
  /\ UNCHANGED <<tasks, nextTaskId, now, deployed, inflight>>

\* login that signs the default role into the token, not the stored one
loginDefaultRole(email, password) ==
  /\ LET body == [email |-> email, password |-> password]
         user == findUserByEmail(email)
         sent == [Trace("login", "auth.js", NoHeader, noMiddleware, "none", TRUE, 500,
                        {"user.findUnique"}) EXCEPT !.body = body]
     IN
     IF email = "" THEN
       last' = sent /\ UNCHANGED wallet
     ELSE IF user = NoUser THEN
       last' = [sent EXCEPT !.status = 401, !.error = errorBody("login", 401)]
       /\ UNCHANGED wallet
     ELSE IF password = "" THEN
       last' = [sent EXCEPT !.ops = {"user.findUnique", "bcrypt.compare"}]
       /\ UNCHANGED wallet
     ELSE IF ~bcryptCompare(password, user.password) THEN
       last' = [sent EXCEPT !.status = 401, !.error = errorBody("login", 401),
                            !.ops = {"user.findUnique", "bcrypt.compare"}]
       /\ UNCHANGED wallet
     ELSE
       LET token == jwtSign(user.id, "USER", Secret, now) IN
       /\ wallet' = {token}
       /\ last' = [sent EXCEPT !.status = 200, !.error = "",
                               !.ops = {"user.findUnique", "bcrypt.compare"},
                               !.token = token, !.role = user.role]
  /\ UNCHANGED <<users, nextUserId, tasks, nextTaskId, now, deployed, inflight>>

\* POST /api/auth/login.  findUnique throws on an undefined email and
\* bcrypt.compare on an undefined password; the catch block answers 500
login(email, password) ==
  /\ LET body == [email |-> email, password |-> password]
         user == findUserByEmail(email)
         sent == [Trace("login", "auth.js", NoHeader, noMiddleware, "none", TRUE, 500,
                        {"user.findUnique"}) EXCEPT !.body = body]
     IN
     IF email = "" THEN
       last' = sent /\ UNCHANGED wallet
     ELSE IF user = NoUser THEN
       last' = [sent EXCEPT !.status = 401, !.error = errorBody("login", 401)]
       /\ UNCHANGED wallet
     ELSE IF password = "" THEN
       last' = [sent EXCEPT !.ops = {"user.findUnique", "bcrypt.compare"}]
       /\ UNCHANGED wallet
     ELSE IF ~bcryptCompare(password, user.password) THEN
       last' = [sent EXCEPT !.status = 401, !.error = errorBody("login", 401),
                            !.ops = {"user.findUnique", "bcrypt.compare"}]
       /\ UNCHANGED wallet
     ELSE
       LET token == jwtSign(user.id, user.role, Secret, now) IN
       /\ wallet' = {token}
       /\ last' = [sent EXCEPT !.status = 200, !.error = "",
                               !.ops = {"user.findUnique", "bcrypt.compare"},
                               !.token = token, !.role = user.role]
  /\ UNCHANGED <<users, nextUserId, tasks, nextTaskId, now, deployed, inflight>>

\* ----------------------------------------------- profile and user routes
\* GET /api/profile/profile: authToken of profile.js, then getProfile
getProfile(hdr) ==
  /\ LET out == profileAuthToken(hdr) IN
     IF ~out.next THEN
       last' = Trace("getProfile", "profile.js", hdr, out, "none", FALSE, out.status, {})
     ELSE IF findUserById(out.user.id) = NoUser THEN
       last' = Trace("getProfile", "profile.js", hdr, out, "none", TRUE, 404,
                     {"user.findUnique"})
     ELSE
       \* res.json(user)
       last' = [Trace("getProfile", "profile.js", hdr, out, "none", TRUE, 200,
                      {"user.findUnique"})
                  EXCEPT !.json = findUserById(out.user.id)]
  /\ UNCHANGED <<users, nextUserId, tasks, nextTaskId, now, wallet, deployed, inflight>>

\* the data updateProfile passes to prisma.user.update: name, email and
\* the hashed password, each if the body has it; a role in the body is
\* not read
updateProfileData(body) ==
  LET named == [f \in {g \in {"name", "email"} : Str(body, g) # ""} |-> body[f]] IN
  IF Str(body, "password") # ""
  THEN named @@ [password |-> bcryptHash(body.password)]
  ELSE named

\* the message of the error prisma.user.update throws
UniqueConstraintFailed ==
  "Unique constraint failed on the fields: (email)"
\* the answer of the framework's own error handler to a rejected handler
InternalServerError == "Internal Server Error"
CannotReachDatabase ==
  "Cannot reach database server at localhost:5432"

\* PUT /api/profile/profile: authToken of profile.js, then updateProfile.
\* bcrypt.hash is awaited before the try block: when it rejects (hashFails)
\* no response is sent, status 0.  prisma.user.update throws when the store
\* is out of reach (storeFails) or the email belongs to another user, and
\* the catch block sends the message of the error.
updateProfile(hdr, body, hashFails, forwarded, storeFails) ==
  /\ LET out == profileAuthToken(hdr)
         data == updateProfileData(body)
         duplicate == /\ Has(data, "email")
                      /\ \E u \in users : u.id # out.user.id /\ u.email = data.email
         hashed == IF Has(data, "password") THEN {"bcrypt.hash"} ELSE {}
         sent == [Trace("updateProfile", "profile.js", hdr, out, "none", TRUE, 200,
                        hashed \cup {"user.update"}) EXCEPT !.body = body]
     IN
     IF ~out.next THEN
       /\ last' = [Trace("updateProfile", "profile.js", hdr, out, "none", FALSE,
                         out.status, {}) EXCEPT !.body = body]
       /\ UNCHANGED users
     ELSE IF Has(data, "password") /\ hashFails THEN
       \* bcrypt.hash is awaited outside the try block: the handler's promise
       \* is rejected.  A framework that forwards the rejection to its error
       \* handler answers 500; one that ignores the promise sends nothing.
       /\ last' = [sent EXCEPT !.status = IF forwarded THEN 500 ELSE 0,
                               !.error = IF forwarded THEN InternalServerError ELSE "",
                               !.ops = hashed]
       /\ UNCHANGED users
     ELSE IF storeFails THEN
       /\ last' = [sent EXCEPT !.status = 500, !.error = CannotReachDatabase]
       /\ UNCHANGED users
     ELSE IF duplicate THEN
       /\ last' = [sent EXCEPT !.status = 500, !.error = UniqueConstraintFailed]
       /\ UNCHANGED users
     ELSE
       /\ users' = {IF u.id = out.user.id
                    THEN [f \in DOMAIN u |-> IF Has(data, f) THEN data[f] ELSE u[f]]
                    ELSE u : u \in users}
       \* res.json(updatedUser)
       /\ last' = [sent EXCEPT !.json = [f \in DOMAIN out.user |->
                                          IF Has(data, f) THEN data[f] ELSE out.user[f]]]
  /\ UNCHANGED <<nextUserId, tasks, nextTaskId, now, wallet, deployed, inflight>>

\* POST /role of the user router: authToken of that router, then role
role(hdr, newRole) ==
  /\ LET out == userAuthToken(hdr) IN
     IF ~out.next THEN
       /\ last' = [Trace("role", "part_002", hdr, out, "none", FALSE, out.status, {})
                     EXCEPT !.body = [role |-> newRole]]
       /\ UNCHANGED users
     ELSE
       /\ users' = {IF u.id = out.user.id THEN [u EXCEPT !.role = newRole] ELSE u : u \in users}
       \* res.json(updatedUser)
       /\ last' = [Trace("role", "part_002", hdr, out, "none", TRUE, 200, {"user.update"})
                     EXCEPT !.body = [role |-> newRole],
                            !.json = [findUserById(out.user.id) EXCEPT !.role = newRole]]
  /\ UNCHANGED <<nextUserId, tasks, nextTaskId, now, wallet, deployed, inflight>>

\* ------------------------------------------------------------ task store
TaskColumns == {"id", "title", "description", "dueDate", "status", "priority",
                "recurring", "userId"}

\* new Date(s): the dates that parse
ValidDates == {"2024-01-01"}

\* prisma.task.create({ data }): FALSE iff it throws (a required column
\* without a default is missing, the user does not exist, or the id is taken)
taskCreateOk(data) ==
  /\ Has(data, "title") /\ Has(data, "description") /\ Has(data, "userId")
  /\ \E u \in users : u.id = data.userId
  /\ Has(data, "dueDate") => data.dueDate \in ValidDates \cup {"null"}
  /\ LET id == IF Has(data, "id") THEN data.id ELSE nextTaskId IN
     \A t \in tasks : t.id # id

\* a create that passes the client's validation reaches the database, where
\* the id sequence advances even when the insert then fails
taskInsertReached(data) ==
  /\ Has(data, "title") /\ Has(data, "description") /\ Has(data, "userId")
  /\ Has(data, "dueDate") => data.dueDate \in ValidDates \cup {"null"}
  /\ ~Has(data, "id")

\* the row prisma.task.create stores: column defaults fill what data omits
taskRow(data) ==
  [id |-> IF Has(data, "id") THEN data.id ELSE nextTaskId,
   title |-> data.title,
   description |-> data.description,
   dueDate |-> IF Has(data, "dueDate") THEN data.dueDate ELSE "null",
   status |-> IF Has(data, "status") THEN data.status ELSE "pending",
   priority |-> IF Has(data, "priority") THEN data.priority ELSE "low",
   recurring |-> IF Has(data, "recurring") THEN data.recurring ELSE "none",
   userId |-> data.userId]

\* prisma.task.update({ where: { id }, data }) on an existing row
taskUpdated(task, data) ==
  [f \in DOMAIN task |-> IF Has(data, f) THEN data[f] ELSE task[f]]

taskUpdateOk(task, data) ==
  LET row == taskUpdated(task, data) IN
  /\ \E u \in users : u.id = row.userId
  /\ row.dueDate \in ValidDates \cup {"null"}
  /\ \A t \in tasks \ {task} : t.id # row.id

\* ---------------------------------------------------------- task routers
\* part_004 mounts router.use(authToken); tasks.js and part_006 mount the
\* handlers with no middleware in front
taskAuth(hdr) == IF deployed = "part_004" THEN authToken(hdr) ELSE noMiddleware

\* orderOptions[sortBy] of a plain object: an own key gives its value, a key
\* inherited from Object.prototype gives a function, anything else undefined
ObjectPrototypeKeys == {"toString"}
orderOptions(keys, sortBy) ==
  IF sortBy \in keys THEN sortBy
  ELSE IF sortBy \in ObjectPrototypeKeys THEN "function " \o sortBy \o "() { [native code] }"
  ELSE ""

\* the key of the orderBy object getAllTasks passes to prisma.task.findMany;
\* sortBy = "" stands for an absent query parameter.
\* tasks.js: orderOptions[sortBy] || 'createdAt' over three keys
sortFieldTasksJs(sortBy) ==
  LET o == orderOptions({"dueDate", "createdAt", "status"}, sortBy) IN
  IF o # "" THEN o ELSE "createdAt"

\* part_006: sortBy defaults to 'createdAt', then the same lookup over six keys
sortFieldPart006(sortBy) ==
  LET o == orderOptions({"dueDate", "createdAt", "status", "userId", "recurring",
                         "priority"}, IF sortBy = "" THEN "createdAt" ELSE sortBy) IN
  IF o # "" THEN o ELSE "createdAt"

\* part_004: sortBy defaults to 'createdAt' and is used as the key as it is
sortFieldPart004(sortBy) == IF sortBy = "" THEN "createdAt" ELSE sortBy

sortField(module, sortBy) ==
  IF module = "tasks.js" THEN sortFieldTasksJs(sortBy)
  ELSE IF module = "part_006" THEN sortFieldPart006(sortBy)
  ELSE sortFieldPart004(sortBy)

\* prisma.task.findMany({ orderBy: { [field]: order } }) throws unless the
\* field is a column of Task
SortColumns == TaskColumns \cup {"createdAt", "updatedAt"}

\* ------------------------------------------------------ task list query
\* req.query of GET /: sortBy, status and search are strings, "" standing
\* for an absent (or empty, equally falsy) parameter; page and limit are
\* strings too, carried only when the request has them
NoQuery == [sortBy |-> "", status |-> "", search |-> ""]

\* String.prototype.toLowerCase over the letters, as mode: 'insensitive'
\* compares
UpperCase == "ABCDEFGHIJKLMNOPQRSTUVWXYZ"
LowerCase == "abcdefghijklmnopqrstuvwxyz"
lowerChar(c) ==
  IF \E k \in 1..Len(UpperCase) : SubSeq(UpperCase, k, k) = c
  THEN LET k == CHOOSE k \in 1..Len(UpperCase) : SubSeq(UpperCase, k, k) = c
       IN SubSeq(LowerCase, k, k)
  ELSE c
RECURSIVE toLowerCase(_)
toLowerCase(str) ==
  IF str = "" THEN ""
  ELSE lowerChar(SubSeq(str, 1, 1)) \o toLowerCase(SubSeq(str, 2, Len(str)))

\* { contains: search, mode: 'insensitive' }
contains(str, search) ==
  LET a == toLowerCase(str)
      b == toLowerCase(search)
  IN \E k \in 1..(Len(a) - Len(b) + 1) : SubSeq(a, k, k + Len(b) - 1) = b

\* Number(search) of a non-empty string: its value when it is a decimal
\* numeral, NaN otherwise
Digits == "0123456789"
isDigit(c) == \E k \in 1..Len(Digits) : SubSeq(Digits, k, k) = c
digitValue(c) == (CHOOSE k \in 1..Len(Digits) : SubSeq(Digits, k, k) = c) - 1
RECURSIVE numeral(_)
numeral(str) ==
  IF str = "" THEN 0
  ELSE 10 * numeral(SubSeq(str, 1, Len(str) - 1)) + digitValue(SubSeq(str, Len(str), Len(str)))
isNaN(str) == \E k \in 1..Len(str) : ~isDigit(SubSeq(str, k, k))

\* const { page = 1, limit = 10 } = req.query; Number(page), Number(limit),
\* where the number is not NaN
pageOf(query) == IF Has(query, "page") THEN numeral(query.page) ELSE 1
limitOf(query) == IF Has(query, "limit") THEN numeral(query.limit) ELSE 10
pageIsNaN(query) == Has(query, "page") /\ isNaN(query.page)
limitIsNaN(query) == Has(query, "limit") /\ isNaN(query.limit)

\* const skip = (Number(page) - 1) * Number(limit)
skipOf(query) == (pageOf(query) - 1) * limitOf(query)
skipIsNaN(query) == pageIsNaN(query) \/ limitIsNaN(query)

\* the columns of the OR list built for a search value
searchClauseColumns(search) ==
  {"title", "description", "userId", "recurring", "priority"}
  \cup (IF search \in ValidDates THEN {"dueDate", "createdAt"} ELSE {})

\* !isNaN(new Date(search).getTime()): the searches that parse as a date
searchIsDate(search) == search \in ValidDates

\* the OR list of the where object, evaluated on one row.  createdAt is the
\* instant of the insert, which no search value denotes.
searchClauses(task, search) ==
  \/ contains(task.title, search)
  \/ contains(task.description, search)
  \/ ~isNaN(search) /\ task.userId = numeral(search)
  \/ contains(task.recurring, search)
  \/ contains(task.priority, search)
  \/ searchIsDate(search) /\ task.dueDate = search

\* the where object of findMany, evaluated on one row.
\* tasks.js: status ? { status } : {}; the search parameter is not read
whereTasksJs(query, task) == query.status # "" => task.status = query.status

\* part_006: { ...(status && { status }), ...(search && { OR: [...] }) }
wherePart006(query, task) ==
  /\ query.status # "" => task.status = query.status
  /\ query.search # "" => searchClauses(task, query.search)

\* part_004: buildFilterConditions(req.query)
buildFilterConditions(query, task) ==
  /\ query.status # "" => task.status = query.status
  /\ query.search # "" => searchClauses(task, query.search)

where(module, query, task) ==
  IF module = "tasks.js" THEN whereTasksJs(query, task)
  ELSE IF module = "part_006" THEN wherePart006(query, task)
  ELSE buildFilterConditions(query, task)

\* the where object of prisma.task.count.
\* tasks.js: prisma.task.count() counts every row
countWhere(module, query, task) ==
  IF module = "tasks.js" THEN TRUE ELSE where(module, query, task)

\* the OR list is sent to the store only by part_006 and part_004
sendsSearch(module, query) == module # "tasks.js" /\ query.search # ""

\* rows skip+1 .. skip+take of the matching rows, in insertion order
pageRows(matched, skip, take) ==
  {t \in matched :
     LET rank == Cardinality({r \in matched : r.id <= t.id}) IN
     rank > skip /\ rank <= skip + take}

\* Math.ceil(totalTasks / Number(limit)), for a positive limit
ceilDiv(a, b) == (a + b - 1) \div b

\* GET /: getAllTasks.  findMany throws on a sort field that is no column
\* and on a negative skip.  Given a NaN, as skip, as take or in
\* { userId: { equals: NaN } }, the store either throws or goes on without
\* that argument (nanThrows); Math.ceil(totalTasks / NaN) is NaN, sent as
\* null and recorded as 0.
getAllTasks(hdr, query, nanThrows) ==
  /\ LET out == taskAuth(hdr)
         field == sortField(deployed, query.sortBy)
         skip == IF skipIsNaN(query) THEN 0 ELSE skipOf(query)
         take == IF limitIsNaN(query) THEN 0 ELSE limitOf(query)
         matched == {t \in tasks : where(deployed, query, t)}
         totalTasks == Cardinality({t \in tasks : countWhere(deployed, query, t)})
         clauses == IF sendsSearch(deployed, query)
                    THEN searchClauseColumns(query.search) ELSE {}
         sent == [Trace("getAllTasks", deployed, hdr, out, "none", TRUE, 500,
                        {"task.findMany"})
                    EXCEPT !.sortBy = query.sortBy, !.sort = field, !.query = query,
                           !.skip = skip, !.take = take,
                           !.skipNaN = skipIsNaN(query), !.takeNaN = limitIsNaN(query),
                           !.clauses = clauses]
     IN
     IF ~out.next THEN
       last' = [Trace("getAllTasks", deployed, hdr, out, "none", FALSE, out.status, {})
                  EXCEPT !.sortBy = query.sortBy, !.query = query]
     ELSE IF \/ field \notin SortColumns
             \/ ~skipIsNaN(query) /\ skip < 0
             \/ skipIsNaN(query) /\ nanThrows
             \/ sendsSearch(deployed, query) /\ isNaN(query.search) /\ nanThrows THEN
       last' = sent
     ELSE
       last' = [sent EXCEPT !.status = 200, !.error = "",
                            !.ops = {"task.findMany", "task.count"},
                            !.tasks = IF limitIsNaN(query)
                                      THEN pageRows(matched, skip, Cardinality(matched))
                                      ELSE pageRows(matched, skip, take),
                            !.totalTasks = totalTasks,
                            !.totalPages = IF limitIsNaN(query) THEN 0
                                           ELSE ceilDiv(totalTasks, take)]
  /\ UNCHANGED <<users, nextUserId, tasks, nextTaskId, now, wallet, deployed, inflight>>

\* const { id } = req.params: the path parameter is a string, and
\* Number(id) is its value when it is a decimal numeral
Number(id) == IF isNaN(id) THEN 0 ELSE numeral(id)

\* GET /:id: getTaskById
getTaskById(hdr, id) ==
  /\ LET out == taskAuth(hdr) IN
     IF ~out.next THEN
       last' = [Trace("getTaskById", deployed, hdr, out, "none", FALSE, out.status, {})
                  EXCEPT !.id = Number(id), !.param = id]
     ELSE IF id = "" \/ isNaN(id) THEN
       last' = [Trace("getTaskById", deployed, hdr, out, "none", TRUE, 400, {})
                  EXCEPT !.param = id]
     ELSE
       last' = [Trace("getTaskById", deployed, hdr, out, "none", TRUE,
                      IF findTask(Number(id)) # NoTask THEN 200 ELSE 404, {"task.findUnique"})
                  EXCEPT !.id = Number(id), !.param = id]
  /\ UNCHANGED <<users, nextUserId, tasks, nextTaskId, now, wallet, deployed, inflight>>

\* GET /user/:userId/tasks: getUserTask
getUserTask(hdr, userId) ==
  /\ LET out == taskAuth(hdr) IN
     IF ~out.next THEN
       last' = [Trace("getUserTask", deployed, hdr, out, "none", FALSE, out.status, {})
                  EXCEPT !.id = userId]
     ELSE
       last' = [Trace("getUserTask", deployed, hdr, out, "none", TRUE, 200,
                      {"task.findMany"})
                  EXCEPT !.id = userId]
  /\ UNCHANGED <<users, nextUserId, tasks, nextTaskId, now, wallet, deployed, inflight>>

\* the data createTask passes to prisma.task.create.
\* tasks.js: five named fields
createDataTasksJs(body) ==
  Only(body, {"title", "description"})
    @@ [dueDate |-> IF Str(body, "dueDate") # "" THEN body.dueDate ELSE "null",
        status |-> IF Str(body, "status") # "" THEN body.status ELSE "pending",
        userId |-> Num(body, "userId")]

\* part_006: the same and recurring || 'none', priority || 'low'
createDataPart006(body) ==
  createDataTasksJs(body)
    @@ [recurring |-> IF Str(body, "recurring") # "" THEN body.recurring ELSE "none",
        priority |-> IF Str(body, "priority") # "" THEN body.priority ELSE "low"]

\* part_004: { ...req.body, dueDate, createdAt }
createDataPart004(body) ==
  Only(body, TaskColumns \ {"dueDate"})
    @@ [dueDate |-> IF Str(body, "dueDate") # "" THEN body.dueDate ELSE "null"]

createData(module, body) ==
  IF module = "tasks.js" THEN createDataTasksJs(body)
  ELSE IF module = "part_006" THEN createDataPart006(body)
  ELSE createDataPart004(body)

\* POST /: createTask
createTask(hdr, body) ==
  /\ nextTaskId <= MaxTasks
  /\ LET out == taskAuth(hdr)
         data == createData(deployed, body)
     IN
     IF ~out.next THEN
       /\ last' = [Trace("createTask", deployed, hdr, out, "none", FALSE, out.status, {})
                     EXCEPT !.body = body]
       /\ UNCHANGED <<tasks, nextTaskId>>
     ELSE IF Str(body, "title") = "" \/ Num(body, "userId") = 0 THEN
       /\ last' = [Trace("createTask", deployed, hdr, out, "none", TRUE, 400, {})
                     EXCEPT !.body = body]
       /\ UNCHANGED <<tasks, nextTaskId>>
     ELSE IF deployed # "part_004" /\ Str(body, "dueDate") # ""
             /\ body.dueDate \notin ValidDates THEN
       /\ last' = [Trace("createTask", deployed, hdr, out, "none", TRUE, 400, {})
                     EXCEPT !.body = body, !.error = "Valid due date is required"]
       /\ UNCHANGED <<tasks, nextTaskId>>
     ELSE IF ~taskCreateOk(data) THEN
       /\ last' = [Trace("createTask", deployed, hdr, out, "none", TRUE, 500, {"task.create"})
                     EXCEPT !.body = body]
       /\ nextTaskId' = IF taskInsertReached(data) THEN nextTaskId + 1 ELSE nextTaskId
       /\ UNCHANGED tasks
     ELSE
       /\ tasks' = tasks \cup {taskRow(data)}
       /\ nextTaskId' = IF Has(data, "id") THEN nextTaskId ELSE nextTaskId + 1
       /\ last' = [Trace("createTask", deployed, hdr, out, "none", TRUE, 201, {"task.create"})
                     EXCEPT !.id = taskRow(data).id, !.body = body]
  /\ UNCHANGED <<users, nextUserId, now, wallet, deployed, inflight>>

\* the data updateTask passes to prisma.task.update.
\* tasks.js: each of four fields is the body's value || the existing one
updateDataTasksJs(body, existingTask) ==
  [title |-> IF Str(body, "title") # "" THEN body.title ELSE existingTask.title,
   description |-> IF Str(body, "description") # "" THEN body.description
                   ELSE existingTask.description,
   dueDate |-> IF Str(body, "dueDate") # "" THEN body.dueDate ELSE existingTask.dueDate,
   status |-> IF Str(body, "status") # "" THEN body.status ELSE existingTask.status]

\* part_006: the same over six fields
updateDataPart006(body, existingTask) ==
  updateDataTasksJs(body, existingTask)
    @@ [recurring |-> IF Str(body, "recurring") # "" THEN body.recurring
                      ELSE existingTask.recurring,
        priority |-> IF Str(body, "priority") # "" THEN body.priority
                     ELSE existingTask.priority]

\* part_004: { ...req.body }
updateDataPart004(body, existingTask) == Only(body, TaskColumns)

updateData(module, body, existingTask) ==
  IF module = "tasks.js" THEN updateDataTasksJs(body, existingTask)
  ELSE IF module = "part_006" THEN updateDataPart006(body, existingTask)
  ELSE updateDataPart004(body, existingTask)

\* PUT /:id: updateTask
updateTask(hdr, id, body) ==
  /\ LET out == taskAuth(hdr)
         existingTask == findTask(Number(id))
     IN
     IF ~out.next THEN
       /\ last' = [Trace("updateTask", deployed, hdr, out, "none", FALSE, out.status, {})
                     EXCEPT !.id = Number(id), !.param = id, !.body = body]
       /\ UNCHANGED tasks
     ELSE IF isNaN(id) THEN
       \* findUnique rejects { id: NaN } and the catch block answers
       /\ last' = [Trace("updateTask", deployed, hdr, out, "none", TRUE, 500,
                         {"task.findUnique"}) EXCEPT !.param = id, !.body = body]
       /\ UNCHANGED tasks
     ELSE IF existingTask = NoTask THEN
       /\ last' = [Trace("updateTask", deployed, hdr, out, "none", TRUE, 404,
                         {"task.findUnique"}) EXCEPT !.id = Number(id), !.param = id, !.body = body]
       /\ UNCHANGED tasks
     ELSE IF ~taskUpdateOk(existingTask, updateData(deployed, body, existingTask)) THEN
       /\ last' = [Trace("updateTask", deployed, hdr, out, "none", TRUE, 500,
                         {"task.findUnique", "task.update"}) EXCEPT !.id = Number(id), !.param = id, !.body = body]
       /\ UNCHANGED tasks
     ELSE
       /\ tasks' = (tasks \ {existingTask})
                     \cup {taskUpdated(existingTask, updateData(deployed, body, existingTask))}
       /\ last' = [Trace("updateTask", deployed, hdr, out, "none", TRUE, 200,
                         {"task.findUnique", "task.update"}) EXCEPT !.id = Number(id), !.param = id, !.body = body]
  /\ UNCHANGED <<users, nextUserId, nextTaskId, now, wallet, deployed, inflight>>

\* PATCH /:id/complete: markTaskAsCompleted
markTaskAsCompleted(hdr, id) ==
  /\ LET out == taskAuth(hdr)
         task == findTask(Number(id))
     IN
     IF ~out.next THEN
       /\ last' = [Trace("markTaskAsCompleted", deployed, hdr, out, "none", FALSE,
                         out.status, {}) EXCEPT !.id = Number(id), !.param = id]
       /\ UNCHANGED tasks
     ELSE IF isNaN(id) THEN
       /\ last' = [Trace("markTaskAsCompleted", deployed, hdr, out, "none", TRUE, 500,
                         {"task.findUnique"}) EXCEPT !.param = id]
       /\ UNCHANGED tasks
     ELSE IF task = NoTask THEN
       /\ last' = [Trace("markTaskAsCompleted", deployed, hdr, out, "none", TRUE, 404,
                         {"task.findUnique"}) EXCEPT !.id = Number(id), !.param = id]
       /\ UNCHANGED tasks
     ELSE
       /\ tasks' = (tasks \ {task}) \cup {taskUpdated(task, [status |-> "completed"])}
       /\ last' = [Trace("markTaskAsCompleted", deployed, hdr, out, "none", TRUE, 200,
                         {"task.findUnique", "task.update"}) EXCEPT !.id = Number(id), !.param = id]
  /\ UNCHANGED <<users, nextUserId, nextTaskId, now, wallet, deployed, inflight>>

\* DELETE /:id: checkAdmin, then deleteTask
deleteTask(hdr, id) ==
  /\ LET out == taskAuth(hdr)
         guard == checkAdmin(out.user)
         task == findTask(Number(id))
     IN
     IF ~out.next THEN
       /\ last' = [Trace("deleteTask", deployed, hdr, out, "none", FALSE, out.status, {})
                     EXCEPT !.id = Number(id), !.param = id]
       /\ UNCHANGED tasks
     ELSE IF guard = "threw" THEN
       \* the TypeError reaches the framework's error handler
       /\ last' = [Trace("deleteTask", deployed, hdr, out, guard, FALSE, 500, {})
                     EXCEPT !.id = Number(id), !.param = id, !.error = "TypeError: Cannot destructure property 'role' of 'req.user' as it is undefined."]
       /\ UNCHANGED tasks
     ELSE IF guard = "rejected" THEN
       /\ last' = [Trace("deleteTask", deployed, hdr, out, guard, FALSE, 403, {})
                     EXCEPT !.id = Number(id), !.param = id]
       /\ UNCHANGED tasks
     ELSE IF isNaN(id) THEN
       /\ last' = [Trace("deleteTask", deployed, hdr, out, guard, TRUE, 500,
                         {"task.findUnique"}) EXCEPT !.param = id]
       /\ UNCHANGED tasks
     ELSE IF task = NoTask THEN
       /\ last' = [Trace("deleteTask", deployed, hdr, out, guard, TRUE, 404,
                         {"task.findUnique"}) EXCEPT !.id = Number(id), !.param = id]
       /\ UNCHANGED tasks
     ELSE
       /\ tasks' = tasks \ {task}
       /\ last' = [Trace("deleteTask", deployed, hdr, out, guard, TRUE, 200,
                         {"task.findUnique", "task.delete"}) EXCEPT !.id = Number(id), !.param = id]
  /\ UNCHANGED <<users, nextUserId, nextTaskId, now, wallet, deployed, inflight>>

\* updateTask up to its first await: the middleware and findUnique.  A
\* request that finds its task waits for the store with the row it read; any
\* other is answered as updateTask answers it.
updateTaskFind(hdr, id, body) ==
  LET out == taskAuth(hdr)
      existingTask == findTask(Number(id))
  IN
  IF out.next /\ ~isNaN(id) /\ existingTask # NoTask THEN
    /\ Cardinality(inflight) < MaxInflight
    /\ inflight' = inflight \cup {[hdr |-> hdr, out |-> out, id |-> id, body |-> body,
                                    existingTask |-> existingTask]}
    /\ UNCHANGED <<users, nextUserId, tasks, nextTaskId, now, wallet, deployed, last>>
  ELSE
    updateTask(hdr, id, body)

\* updateTask from prisma.task.update on: the data built from the body and
\* the row read earlier is written to the row the store holds now
updateTaskWrite(request) ==
  /\ LET data == updateData(deployed, request.body, request.existingTask)
         task == findTask(Number(request.id))
     IN
     IF task = NoTask \/ ~taskUpdateOk(task, data) THEN
       /\ last' = [Trace("updateTask", deployed, request.hdr, request.out, "none", TRUE,
                         500, {"task.findUnique", "task.update"})
                     EXCEPT !.id = Number(request.id), !.param = request.id,
                            !.body = request.body]
       /\ UNCHANGED tasks
     ELSE
       /\ tasks' = (tasks \ {task}) \cup {taskUpdated(task, data)}
       /\ last' = [Trace("updateTask", deployed, request.hdr, request.out, "none", TRUE,
                         200, {"task.findUnique", "task.update"})
                     EXCEPT !.id = Number(request.id), !.param = request.id,
                            !.body = request.body]
  /\ inflight' = inflight \ {request}
  /\ UNCHANGED <<users, nextUserId, nextTaskId, now, wallet, deployed>>

\* ----------------------------------------------------------- environment
\* between two requests the clock advances to a later instant
Tick ==
  /\ last = NoTrace
  /\ \E t \in TimePoints : t > now /\ now' = t
  /\ UNCHANGED <<users, nextUserId, tasks, nextTaskId, wallet, deployed, inflight, last>>

\* between two requests a user row is deleted in the store, outside this
\* program; the foreign key
\* Task.userId keeps a user that still has tasks
userDeleted ==
  /\ last = NoTrace
  /\ \E u \in users :
       /\ \A t \in tasks : t.userId # u.id
       /\ users' = users \ {u}
  /\ UNCHANGED <<nextUserId, tasks, nextTaskId, now, wallet, deployed, inflight, last>>

\* the response has been sent and the request is over: the server is idle
\* again and takes the next request
Respond ==
  /\ last # NoTrace
  /\ last' = NoTrace
  /\ UNCHANGED <<users, nextUserId, tasks, nextTaskId, now, wallet, deployed, inflight>>

\* --------------------------------------------------------- specification
Init ==
  /\ users = {}
  /\ nextUserId = 1
  /\ tasks = {}
  /\ nextTaskId = 1
  /\ now = 0
  /\ wallet = {}
  /\ deployed \in TaskModules
  /\ inflight = {}
  /\ last = NoTrace

Register == \E e \in Emails \cup {""}, p \in Passwords \cup {""}, n \in Names \cup {""},
               r \in Roles \cup {""} :
  last = NoTrace /\ register(e, p, n, r)
Login == \E e \in Emails \cup {""}, p \in Passwords \cup {"wrong", ""} :
  last = NoTrace /\ login(e, p)
GetProfile == \E h \in Headers :
  last = NoTrace /\ getProfile(h)
Role == \E h \in Headers, r \in Roles :
  last = NoTrace /\ role(h, r)

SortKeys == {"", "dueDate", "createdAt", "status", "userId", "recurring", "priority",
             "title", "bogusField", "toString"}
TaskIds == 1..(MaxTasks + 1)
\* the id path parameters of those tasks, as decimal numerals
IdParams == {SubSeq(Digits, i + 1, i + 1) : i \in TaskIds}
CreateBodies ==
  {[title |-> "T", description |-> "D", userId |-> u] : u \in 1..MaxUsers}
  \cup {[title |-> "T", userId |-> 1], [description |-> "D", userId |-> 1],
        [title |-> "T", description |-> "D"]}
UpdateBodies == {[status |-> "completed"], [id |-> MaxTasks + 1]}

GetAllTasks == \E h \in Headers, k \in SortKeys :
  last = NoTrace /\ getAllTasks(h, [NoQuery EXCEPT !.sortBy = k], FALSE)
GetTaskById == \E h \in Headers, i \in IdParams :
  last = NoTrace /\ getTaskById(h, i)
GetUserTask == \E h \in Headers, u \in 1..MaxUsers :
  last = NoTrace /\ getUserTask(h, u)
CreateTask == \E h \in Headers, b \in CreateBodies :
  last = NoTrace /\ createTask(h, b)
UpdateTask == \E h \in Headers, i \in IdParams, b \in UpdateBodies :
  last = NoTrace /\ updateTask(h, i, b)
MarkTaskAsCompleted == \E h \in Headers, i \in IdParams :
  last = NoTrace /\ markTaskAsCompleted(h, i)
DeleteTask == \E h \in Headers, i \in IdParams :
  last = NoTrace /\ deleteTask(h, i)

ProfileBodies ==
  {[name |-> "A", role |-> "ADMIN"], [password |-> "p"]}
  \cup {[email |-> e] : e \in Emails}

UpdateProfile == \E h \in Headers, b \in ProfileBodies, hashFails \in BOOLEAN,
                    forwarded \in BOOLEAN, storeFails \in BOOLEAN :
  last = NoTrace /\ updateProfile(h, b, hashFails, forwarded, storeFails)

\* a client that sends its token or none
QueryHeaders == {NoHeader} \cup {Header("Bearer", t) : t \in wallet}

\* updates of one mutable field each, and of none
FieldBodies == {NoBody, [status |-> "completed"], [priority |-> "high"], [title |-> "U"]}

UpdateTaskFields == \E h \in QueryHeaders, i \in IdParams, b \in FieldBodies :
  last = NoTrace /\ updateTask(h, i, b)

\* the list requests of that client
Pages == {"0", "2", "abc"}
Limits == {"1", "5"}
Queries ==
  LET base == {[sortBy |-> "", status |-> st, search |-> se] :
                 st \in {"", "pending", "completed"}, se \in {"", "t", "1", "zz"}}
      paged == base \cup {q @@ [page |-> p] : q \in base, p \in Pages}
  IN paged \cup {q @@ [limit |-> l] : q \in paged, l \in Limits}

QueryTasks == \E h \in QueryHeaders, q \in Queries, nanThrows \in BOOLEAN :
  last = NoTrace /\ getAllTasks(h, q, nanThrows)

\* the server and its clients, at one instant and with no row deleted
\* behind the server's back
Next ==
  \/ Register
  \/ Login
  \/ GetProfile
  \/ Role
  \/ GetAllTasks
  \/ GetTaskById
  \/ GetUserTask
  \/ CreateTask
  \/ UpdateTask
  \/ MarkTaskAsCompleted
  \/ DeleteTask
  \/ Respond

Spec == Init /\ [][Next]_vars

\* the routes behind an authToken while time passes and users disappear;
\* no task is created, so the task routes find nothing
NextAuth ==
  \/ Register
  \/ Login
  \/ GetProfile
  \/ Role
  \/ GetTaskById
  \/ GetUserTask
  \/ MarkTaskAsCompleted
  \/ DeleteTask
  \/ Respond
  \/ Tick
  \/ userDeleted

SpecAuth == Init /\ [][NextAuth]_vars

\* the task list under its query parameters, over the stores that register,
\* createTask and markTaskAsCompleted build
NextQuery ==
  \/ Register
  \/ CreateTask
  \/ MarkTaskAsCompleted
  \/ QueryTasks
  \/ Respond

SpecQuery == Init /\ [][NextQuery]_vars

\* partial updates of the tasks that register and createTask build
NextUpdate ==
  \/ Register
  \/ CreateTask
  \/ UpdateTaskFields
  \/ Respond

SpecUpdate == Init /\ [][NextUpdate]_vars

\* the profile and role routes of registered users
NextProfile ==
  \/ Register
  \/ Login
  \/ GetProfile
  \/ UpdateProfile
  \/ Role
  \/ Respond

SpecProfile == Init /\ [][NextProfile]_vars

\* the by-id task routes under the path parameters a client can send: the
\* numerals of the task ids and a word that is no number
PathParams == IdParams \cup {"abc"}

GetTaskByPath == \E h \in QueryHeaders, i \in PathParams :
  last = NoTrace /\ getTaskById(h, i)
UpdateTaskByPath == \E h \in QueryHeaders, i \in PathParams :
  last = NoTrace /\ updateTask(h, i, [status |-> "completed"])
MarkTaskAsCompletedByPath == \E h \in QueryHeaders, i \in PathParams :
  last = NoTrace /\ markTaskAsCompleted(h, i)
DeleteTaskByPath == \E h \in QueryHeaders, i \in PathParams :
  last = NoTrace /\ deleteTask(h, i)

NextPath ==
  \/ Register
  \/ CreateTask
  \/ GetTaskByPath
  \/ UpdateTaskByPath
  \/ MarkTaskAsCompletedByPath
  \/ DeleteTaskByPath
  \/ Respond

SpecPath == Init /\ [][NextPath]_vars

\* concurrent requests on the tasks that register and createTask build:
\* updates of one field each, in two steps, and markTaskAsCompleted
RaceBodies == {[title |-> "U"], [description |-> "E"]}

UpdateTaskFind == \E h \in QueryHeaders, i \in IdParams, b \in RaceBodies :
  last = NoTrace /\ updateTaskFind(h, i, b)
UpdateTaskWrite == \E request \in inflight :
  last = NoTrace /\ updateTaskWrite(request)
CompleteTask == \E h \in QueryHeaders, i \in IdParams :
  last = NoTrace /\ markTaskAsCompleted(h, i)

NextRace ==
  \/ Register
  \/ CreateTask
  \/ UpdateTaskFind
  \/ UpdateTaskWrite
  \/ CompleteTask
  \/ Respond

SpecRace == Init /\ [][NextRace]_vars

\* ------------------------------------------------------------ properties
AuthModules == {"auth.js", "profile.js"}
TaskOps == {"getAllTasks", "getTaskById", "getUserTask", "createTask", "updateTask",
            "markTaskAsCompleted", "deleteTask"}
AllowList == {"dueDate", "createdAt", "status", "userId", "recurring", "priority"}

\* C1: a request with no Authorization header, or with a header that carries
\* no token, is answered 401 by authToken, with no token verification, no
\* user lookup, no principal attached and no call of the next handler.
C1_NoToken401 ==
  (/\ last.mw \in AuthModules
   /\ (~last.hdr.present \/ last.hdr.second.kind \in {"undefined", "empty"}))
  => /\ last.status = 401
     /\ ~last.verified /\ ~last.lookup
     /\ last.user = NoUser
     /\ ~last.authNext /\ ~last.handler /\ last.ops = {}

C1_Witness ==
  /\ last.mw = "auth.js" /\ last.hdr.present /\ last.hdr.second.kind = "empty"
  /\ last.status = 401

\* C2: a request whose token is present but malformed, signed with another
\* secret, or expired, is answered 403, never 401, with no principal
\* attached and no call of the next handler.
C2_BadToken403 ==
  LET tok == last.hdr.second IN
  (/\ last.mw \in AuthModules
   /\ last.hdr.present
   /\ \/ tok.kind = "garbage"
      \/ tok.kind = "jwt" /\ tok.sig # Secret
      \/ tok.kind = "jwt" /\ now >= tok.exp)
  => /\ last.status = 403
     /\ last.user = NoUser
     /\ ~last.authNext /\ ~last.handler /\ last.ops = {}

C2_Witness ==
  /\ last.mw = "auth.js" /\ last.hdr.present
  /\ last.hdr.second.kind = "jwt" /\ last.hdr.second.sig = Secret
  /\ now = last.hdr.second.exp
  /\ last.status = 403

\* C3: a request whose Authorization header uses a scheme other than Bearer
\* is answered 401 by authToken and never gets a principal, even when the
\* second word of the header is a token that verifies.
C3_WrongScheme401 ==
  (last.mw \in AuthModules /\ last.hdr.present /\ last.hdr.first # "Bearer")
  => (last.status = 401 /\ last.user = NoUser /\ ~last.authNext)

\* C4: a token that verifies but whose userId matches no user of the store
\* is answered 403, with no principal attached and no call of the next
\* handler.
C4_NoSuchUser403 ==
  LET tok == last.hdr.second IN
  (/\ last.mw \in AuthModules
   /\ last.hdr.present
   /\ tok.kind = "jwt" /\ tok.sig = Secret /\ now < tok.exp
   /\ \A u \in users : u.id # tok.userId)
  => /\ last.status = 403
     /\ last.user = NoUser
     /\ ~last.authNext /\ ~last.handler /\ last.ops = {}

C4_Witness ==
  /\ last.mw = "profile.js" /\ last.hdr.present
  /\ last.hdr.second.kind = "jwt" /\ last.hdr.second.sig = Secret
  /\ now < last.hdr.second.exp
  /\ \A u \in users : u.id # last.hdr.second.userId
  /\ last.status = 403

\* C5: for every request an auth middleware accepts, the role of the
\* attached principal equals the role claim of the presented token, for the
\* authToken of the task routes and for the authToken of the profile routes.
C5_PrincipalRoleIsTokenRole ==
  (last.mw \in AuthModules /\ last.authNext)
  => last.user.role = last.hdr.second.role

\* C6: a DELETE task request with a valid token of role USER is answered 403
\* and leaves the task in the store; with a valid token of role ADMIN, for an
\* existing task, it reaches deleteTask, is answered 200 and removes the task.
C6_DeleteByRole ==
  [][(last.op = "none" /\ last'.op = "deleteTask") =>
       LET tok == last'.hdr.second
           valid == /\ last'.hdr.present /\ last'.hdr.first = "Bearer"
                    /\ tok.kind = "jwt" /\ tok.sig = Secret /\ now < tok.exp
                    /\ \E u \in users : u.id = tok.userId
       IN
       /\ (valid /\ tok.role = "USER") => (last'.status = 403 /\ tasks' = tasks)
       /\ (valid /\ tok.role = "ADMIN" /\ \E t \in tasks : t.id = last'.id)
            => /\ last'.handler
               /\ last'.status = 200
               /\ tasks' = {t \in tasks : t.id # last'.id}]_vars

\* C7: a task row leaves the store only through a DELETE task request whose
\* attached principal has role ADMIN; no other operation, and no DELETE by
\* another principal, removes a task.
C7_OnlyAdminDeletes ==
  [][Cardinality(tasks') < Cardinality(tasks) =>
       /\ last'.op = "deleteTask"
       /\ last'.user # NoUser
       /\ last'.user.role = "ADMIN"
       /\ last'.guard = "passed"]_vars

C7_Witness ==
  /\ last.op = "deleteTask" /\ last.status = 200
  /\ last.user # NoUser /\ last.user.role = "ADMIN"
  /\ "task.delete" \in last.ops
  /\ findTask(last.id) = NoTask

\* C8: on every task route the handler performs a store operation only
\* after authToken accepted the request and attached a principal, and on the
\* delete route the role guard runs after authToken and before deleteTask.
C8_StoreOnlyAfterAuth ==
  /\ (last.op \in TaskOps /\ last.ops # {})
       => (last.mw = "auth.js" /\ last.authNext /\ last.user # NoUser)
  /\ (last.op = "deleteTask" /\ last.handler)
       => (last.mw = "auth.js" /\ last.authNext /\ last.guard = "passed")

\* C9: the sort field getAllTasks sends to the store is always in the
\* allow-list, and an absent or unrecognized sortBy yields createdAt.
C9_SortFieldAllowed ==
  (last.op = "getAllTasks" /\ "task.findMany" \in last.ops)
  => /\ last.sort \in AllowList
     /\ last.sortBy \notin AllowList => last.sort = "createdAt"

\* C10: for each sortBy value of the allow-list, getAllTasks sorts by
\* exactly that field.
C10_AllowedSortKept ==
  (last.op = "getAllTasks" /\ "task.findMany" \in last.ops /\ last.sortBy \in AllowList)
  => last.sort = last.sortBy

\* C11: getAllTasks passes skip = (max(page, 1) - 1) * limit and take = limit
\* to the store, with page = 1 and limit = 10 by default, and the skip it
\* passes is never negative.
C11_SkipTake ==
  (/\ last.op = "getAllTasks" /\ "task.findMany" \in last.ops
   /\ ~pageIsNaN(last.query) /\ ~limitIsNaN(last.query))
  => LET page == pageOf(last.query)
         limit == limitOf(last.query)
     IN /\ last.skip = ((IF page > 1 THEN page ELSE 1) - 1) * limit
        /\ last.take = limit
        /\ last.skip >= 0

\* C12: getAllTasks reports totalTasks as the number of tasks matching the
\* filter of its page query, and totalPages = ceil(totalTasks / limit); a
\* filter matching no task gives 200 with an empty list and zero totals.
C12_CountMatchesFilter ==
  (last.op = "getAllTasks" /\ last.status = 200 /\ ~last.takeNaN)
  => LET matching == {t \in tasks : where(last.module, last.query, t)} IN
     /\ last.totalTasks = Cardinality(matching)
     /\ last.totalPages = ceilDiv(last.totalTasks, last.take)
     /\ matching = {} => (last.tasks = {} /\ last.totalTasks = 0 /\ last.totalPages = 0)

\* C13: with a search parameter, getAllTasks returns a task only if it
\* matches at least one search clause and, when status is present too, also
\* has that status.
C13_SearchFilter ==
  (last.op = "getAllTasks" /\ last.status = 200 /\ last.query.search # "")
  => \A t \in last.tasks :
       /\ searchClauses(t, last.query.search)
       /\ last.query.status # "" => t.status = last.query.status

\* C14: login with the email and password of a stored user answers 200
\* with a token whose userId and role claims are that user's id and role in
\* the store at that time, and with a role member equal to that stored role.
C14_LoginIssuesStoredClaims ==
  (/\ last.op = "login"
   /\ \E u \in users : /\ u.email = last.body.email
                       /\ u.password = bcryptHash(last.body.password))
  => LET u == CHOOSE u \in users : u.email = last.body.email IN
     /\ last.status = 200
     /\ last.token.kind = "jwt"
     /\ last.token.userId = u.id
     /\ last.token.role = u.role
     /\ last.role = u.role

C14_Witness ==
  /\ last.op = "login" /\ last.status = 200
  /\ last.token.role = "ADMIN"
  /\ \E u \in users : u.email = last.body.email /\ u.role = "ADMIN"

\* C15: a login with an email the store does not know and a login with a
\* known email and a wrong password get one and the same response: status
\* 401, the same body, and no token.
C15_LoginFailuresAlike ==
  LET unknown == \A u \in users : u.email # last.body.email
      wrong == \E u \in users : /\ u.email = last.body.email
                                /\ last.body.password # ""
                                /\ u.password # bcryptHash(last.body.password)
  IN (last.op = "login" /\ last.body.email # "" /\ (unknown \/ wrong))
     => /\ last.status = 401
        /\ last.error = "Invalid email or password"
        /\ last.token = Undefined
        /\ last.role = ""

C15_Witness ==
  /\ last.op = "login" /\ last.status = 401
  /\ \E u \in users : /\ u.email = last.body.email
                      /\ u.password # bcryptHash(last.body.password)
  /\ "bcrypt.compare" \in last.ops

\* C16: a token register or login issues carries the id and role of its
\* user, verifies at every time strictly before its issuance plus one hour
\* and at no time from then on; neither a role change nor the deletion of
\* the user stops it from verifying.
C16_TokenLifetime ==
  LET tok == last.hdr.second IN
  /\ \A t \in wallet : jwtVerify(t, Secret, now) <=> now < t.iat + 3600
  /\ (last.op \in {"register", "login"} /\ last.token # Undefined)
       => LET u == findUserByEmail(last.body.email) IN
          /\ last.token.iat = now
          /\ last.token.userId = u.id /\ last.token.role = u.role
          /\ jwtVerify(last.token, Secret, now)
  /\ (last.mw # "" /\ last.hdr.present /\ tok.kind = "jwt" /\ tok.sig = Secret)
       => IF now < tok.iat + 3600
          THEN /\ last.lookup
               /\ last.authNext => last.user.id = tok.userId
               /\ (last.authNext /\ last.mw # "profile.js") => last.user.role = tok.role
          ELSE last.status = 403 /\ ~last.lookup /\ ~last.authNext

C16_Witness ==
  /\ last.mw = "auth.js" /\ last.authNext
  /\ last.hdr.second.iat = 0 /\ now = 3599
  /\ last.user.id = last.hdr.second.userId

\* C17: register with email, password or name missing, and createTask with
\* title or userId missing, answer 400 without a call of the hasher or of the
\* store, and leave the user and task stores as they were.
C17_MissingFields400 ==
  [][(/\ last.op = "none" /\ last'.handler
      /\ \/ /\ last'.op = "register"
            /\ \/ last'.body.email = "" \/ last'.body.password = ""
               \/ last'.body.name = ""
         \/ /\ last'.op = "createTask"
            /\ ~Has(last'.body, "title") \/ ~Has(last'.body, "userId"))
     => /\ last'.status = 400
        /\ last'.ops = {}
        /\ users' = users /\ nextUserId' = nextUserId
        /\ tasks' = tasks /\ nextTaskId' = nextTaskId]_vars

C17_Witness ==
  /\ last.op = "register" /\ last.status = 400
  /\ last.body.email # "" /\ last.body.password # "" /\ last.body.name = ""

\* C18: updateTask on an existing task, with a body over the mutable fields
\* (title, description, dueDate, status, priority, recurring), sets exactly
\* the fields of the body to the given values and leaves every other field
\* of that task, and every other task, unchanged.
MutableFields == {"title", "description", "dueDate", "status", "priority", "recurring"}
C18_PartialUpdate ==
  [][(/\ last.op = "none" /\ last'.op = "updateTask" /\ last'.handler
      /\ DOMAIN last'.body \subseteq MutableFields
      /\ \E t \in tasks : t.id = last'.id)
     => LET old == CHOOSE t \in tasks : t.id = last'.id
            new == [f \in DOMAIN old |->
                      IF f \in DOMAIN last'.body THEN last'.body[f] ELSE old[f]]
        IN tasks' = (tasks \ {old}) \cup {new}]_vars

\* C19: a profile or role update request that carries a role changes the
\* stored role only when the principal of the caller has role ADMIN; from a
\* USER principal the request is rejected and the stored role stays.
C19_RoleChangeNeedsAdmin ==
  [][(/\ last.op = "none" /\ last'.op \in {"role", "updateProfile"}
      /\ Has(last'.body, "role")
      /\ last'.authNext /\ last'.user.role = "USER")
     => /\ last'.status = 403
        /\ users' = users]_vars

\* C20: when a store call or a password hash or compare call fails inside a
\* handler, the client gets a 500 response whose body is a fixed message of
\* that handler, with none of the text of the error.
GenericMessages == {"", "Registration Failed", "Login Failed", "Failed to fetch tasks",
                    "Failed to create task", "Failed to update task"}
C20_GenericFailure ==
  (last.handler /\ last.ops # {} /\ last.status \notin {200, 201, 400, 401, 403, 404})
  => /\ last.status = 500
     /\ last.error \in GenericMessages

\* C21: getTaskById, updateTask, markTaskAsCompleted and deleteTask, run
\* with an id for which the store holds no task, each answer 404 and leave
\* the store unchanged.
ByIdOps == {"getTaskById", "updateTask", "markTaskAsCompleted", "deleteTask"}
C21_AbsentTask404 ==
  [][(/\ last.op = "none" /\ last'.op \in ByIdOps /\ last'.handler
      /\ \A t \in tasks : t.id # last'.id)
     => /\ last'.status = 404
        /\ tasks' = tasks /\ nextTaskId' = nextTaskId
        /\ users' = users]_vars

C21_Witness ==
  /\ last.op = "deleteTask" /\ last.handler /\ last.status = 404
  /\ tasks # {} /\ \A t \in tasks : t.id # last.id

\* C22: createTask with a body of only title and userId stores exactly one
\* new task, with status "pending", priority "low", recurring "none", a null
\* dueDate and the given userId, answers 201, and changes no existing task.
C22_CreateDefaults ==
  [][(/\ last.op = "none" /\ last'.op = "createTask" /\ last'.handler
      /\ DOMAIN last'.body = {"title", "userId"}
      /\ \E u \in users : u.id = last'.body.userId)
     => /\ last'.status = 201
        /\ \E row \in tasks' \ tasks :
             /\ tasks' = tasks \cup {row}
             /\ row.title = last'.body.title /\ row.userId = last'.body.userId
             /\ row.status = "pending" /\ row.priority = "low"
             /\ row.recurring = "none" /\ row.dueDate = "null"]_vars

\* C23: a role guard that runs on a request with no attached principal
\* rejects it as unauthenticated: it does not throw, the answer is not 500,
\* and the next handler is not called.
C23_GuardWithoutPrincipal ==
  /\ isAdmin(NoUser) = "rejected"
  /\ (last.op = "deleteTask" /\ last.authNext /\ last.user = NoUser)
       => /\ last.guard = "rejected"
          /\ last.status \in {401, 403}
          /\ ~last.handler

\* C24: the userId-equality clause is in the search clause set only when
\* the search value parses as a number; then a task whose userId is that
\* number is returned although none of its text fields match, and for a
\* non-numeric search no userId clause goes to the store; this for the
\* routers that build search clauses.
C24_UserIdClauseWhenNumeric ==
  (/\ last.op = "getAllTasks" /\ "task.findMany" \in last.ops
   /\ last.query.search # "" /\ last.clauses # {})
  => /\ "userId" \in last.clauses <=> ~isNaN(last.query.search)
     /\ (/\ last.status = 200 /\ ~isNaN(last.query.search)
         /\ last.query.status = "" /\ DOMAIN last.query = DOMAIN NoQuery)
          => \A t \in tasks : t.userId = numeral(last.query.search) => t \in last.tasks

\* C25: a task list request whose page or limit is not numeric is answered
\* 400 before any store call; no findMany or count goes out with a NaN skip
\* or take.
C25_NonNumericPaging400 ==
  (/\ last.op = "getAllTasks" /\ last.handler
   /\ pageIsNaN(last.query) \/ limitIsNaN(last.query))
  => /\ last.status = 400
     /\ last.ops = {}
     /\ ~last.skipNaN /\ ~last.takeNaN

\* C26: in every by-id task operation (getTaskById, updateTask,
\* markTaskAsCompleted, deleteTask) a request that reaches the handler with
\* an id path parameter that is not a number is answered 400 and no store
\* call is made
C26_NonNumericId400 ==
  (/\ last.op \in ByIdOps
   /\ last.handler
   /\ isNaN(last.param))
  => (last.status = 400 /\ last.ops = {})

\* C27: when an updateTask request that ran concurrently with other requests
\* on the same task writes, every mutable field absent from its body keeps
\* the value the store held just before the write, so that no write of
\* another request is reverted to the value read earlier
C27_NoLostUpdate ==
  [][\A request \in inflight :
       (/\ inflight' = inflight \ {request}
        /\ last'.op = "updateTask" /\ last'.status = 200)
       => \A t \in tasks :
            t.id = Number(request.id)
            => \E n \in tasks' :
                 /\ n.id = t.id
                 /\ \A f \in MutableFields \ DOMAIN request.body : n[f] = t[f]]_vars

\* C28: every request to the auth, profile and task routes is answered: on
\* no path, a failing store call, a failing password hash in updateProfile
\* and a role guard without a principal included, is the request left
\* without a response
C28_OneResponse ==
  last.op # "none" => last.status # 0

\* C29: from a store with no ADMIN user, no sequence of requests leads to a
\* stored user with role ADMIN, to an issued token whose role claim is ADMIN,
\* or to a task deleted through deleteTask
C29_NoSelfMadeAdmin ==
  /\ \A u \in users : u.role # "ADMIN"
  /\ \A t \in wallet : t.role # "ADMIN"
  /\ ~(last.op = "deleteTask" /\ last.status = 200)

\* C30: no response carries the stored password hash of a user
C30_NoPasswordHashSent ==
  \A u \in users : ~(Has(last.json, "password") /\ last.json.password = u.password)

====
